---- MODULE Spec2Model ----
(***************************************************************************)
(* Model of convert/xml_to_markdown.py: the converter that turns a corpus  *)
(* of XML documents with a nested heading outline (h0 > h1 > h2 > h3 > h4) *)
(* into a directory tree of Markdown files.                                *)
(*                                                                         *)
(* Strings are sequences of tokens.  A token is one character that the     *)
(* code treats specially (a bracket, a digit, white space, a path          *)
(* separator, a character that sanitize_filename replaces) or an opaque    *)
(* run of ordinary characters such as "Hello" or ".md".                    *)
(***************************************************************************)
EXTENDS Integers, Sequences, FiniteSets, TLC

\* ------------------------------------------------------------------ bounds
MaxLen   == 4   \* longest string given to sanitize_filename in SpecSanitize
MaxH4    == 2   \* most <h4> children of one <h3>
MaxFiles == 2   \* most files in the input folder
MaxRuns  == 2   \* most invocations of the converter on the same input

\* ----------------------------------------------------------------- strings
NoElem == "NoElem"          \* find() returned None: the element is missing
SEP    == "/"               \* os.sep
NL     == "\n"

IsSpace(t) == t \in {" ", NL, "\t"}
IsDigit(t) == t \in {"0", "1", "2", "3", "4", "5", "6", "7", "8", "9"}
IsUnsafe(t) == t \in {"<", ">", ":", "\"", "/", "\\", "|", "?", "*"}

RECURSIVE LStrip(_)
LStrip(s) == IF s # <<>> /\ IsSpace(Head(s)) THEN LStrip(Tail(s)) ELSE s

RECURSIVE RStrip(_)
RStrip(s) ==
    IF s # <<>> /\ IsSpace(s[Len(s)]) THEN RStrip(SubSeq(s, 1, Len(s) - 1)) ELSE s

\* str.strip()
Strip(s) == RStrip(LStrip(s))

RECURSIVE SkipDigits(_)
SkipDigits(s) == IF s # <<>> /\ IsDigit(Head(s)) THEN SkipDigits(Tail(s)) ELSE s

\* re.sub(r'^\[\d+\]\s*', '', name): one anchored match, removed once.
StripOrdinal(name) ==
    IF Len(name) >= 3 /\ name[1] = "[" /\ IsDigit(name[2])
    THEN LET rest == SkipDigits(Tail(name))
         IN  IF rest # <<>> /\ Head(rest) = "]" THEN LStrip(Tail(rest)) ELSE name
    ELSE name

\* re.sub(r'[<>:"/\\|?*]', '_', name)
ReplaceUnsafe(name) == [i \in 1..Len(name) |-> IF IsUnsafe(name[i]) THEN "_" ELSE name[i]]

sanitize_filename(name) == Strip(ReplaceUnsafe(StripOrdinal(name)))

RECURSIVE JoinWith(_, _)
\* sep.join(parts)
JoinWith(sep, parts) ==
    IF parts = <<>> THEN <<>>
    ELSE IF Len(parts) = 1 THEN parts[1]
    ELSE parts[1] \o sep \o JoinWith(sep, Tail(parts))

\* ' '.join(element.itertext()).strip(); a paragraph is the sequence of
\* text fragments itertext() yields.
extract_text(element) == Strip(JoinWith(<<" ">>, element))

\* '\n\n'.join(extract_text(p) for p in paragraphs if extract_text(p))
markdown_content(paragraphs) ==
    LET texts == [i \in 1..Len(paragraphs) |-> extract_text(paragraphs[i])]
    IN  JoinWith(<<NL, NL>>, SelectSeq(texts, LAMBDA t : t # <<>>))

\* str.lower() on the letters that occur in the modelled file names
LowerTok(t) ==
    CASE t = "M" -> "m" [] t = "A" -> "a" [] t = "T" -> "t"
      [] t = "X" -> "x" [] t = "L" -> "l" [] OTHER -> t

Lower(s) == [i \in 1..Len(s) |-> LowerTok(s[i])]

\* str.endswith
EndsWith(s, suffix) ==
    Len(s) >= Len(suffix) /\ SubSeq(s, Len(s) - Len(suffix) + 1, Len(s)) = suffix

DotXml == <<".", "x", "m", "l">>

\* re.search(r'([mat])\.xml$', filename.lower()); NoElem is None. The result is
\* a one-token string.
classify_file(filename) ==
    LET low == Lower(filename)
    IN  IF EndsWith(low, DotXml) /\ Len(low) >= 5 /\ low[Len(low) - 4] \in {"m", "a", "t"}
        THEN <<low[Len(low) - 4]>>
        ELSE <<NoElem>>

\* ------------------------------------------------------------------- paths
\* os.path.join(a, b) on POSIX
os_path_join(a, b) ==
    IF b # <<>> /\ Head(b) = SEP THEN b
    ELSE IF a = <<>> \/ a[Len(a)] = SEP THEN a \o b
    ELSE a \o <<SEP>> \o b

RECURSIVE LastSep(_)
\* str.rfind(sep) + 1
LastSep(p) == IF p = <<>> \/ p[Len(p)] = SEP THEN Len(p) ELSE LastSep(SubSeq(p, 1, Len(p) - 1))

RECURSIVE RStripSep(_)
RStripSep(p) == IF p # <<>> /\ p[Len(p)] = SEP THEN RStripSep(SubSeq(p, 1, Len(p) - 1)) ELSE p

\* os.path.dirname(p) on POSIX
os_path_dirname(p) ==
    LET head == SubSeq(p, 1, LastSep(p))
    IN  IF RStripSep(head) = <<>> THEN head ELSE RStripSep(head)

\* os.path.basename(p) on POSIX
os_path_basename(p) == SubSeq(p, LastSep(p) + 1, Len(p))

RECURSIVE Ancestors(_)
\* the directory itself and every directory above it
Ancestors(d) ==
    IF d = <<>> \/ os_path_dirname(d) = d THEN {d} \ {<<>>}
    ELSE {d} \cup Ancestors(os_path_dirname(d))

\* -------------------------------------------------------------- filesystem
\* A filesystem is [fs, dirs]: fs maps the path of each regular file to its
\* content, dirs is the set of directories.

\* os.makedirs(d, exist_ok): raises an OSError (result ok = FALSE) when d is
\* empty, when d or a directory above it is a regular file, or when d exists
\* and exist_ok is false; otherwise creates d and what is missing above it.
os_makedirs(d, exist_ok, fsd) ==
    IF d = <<>> \/ (\E q \in Ancestors(d) : q \in DOMAIN fsd.fs) \/ (~exist_ok /\ d \in fsd.dirs)
    THEN [fs |-> fsd.fs, dirs |-> fsd.dirs, ok |-> FALSE]
    ELSE [fs |-> fsd.fs, dirs |-> fsd.dirs \cup Ancestors(d), ok |-> TRUE]

\* (mutant) open(path, 'a'): an existing file is appended to
open_write_append(path, text, fsd) ==
    IF path \in fsd.dirs
    THEN [fs |-> fsd.fs, dirs |-> fsd.dirs, ok |-> FALSE]
    ELSE [fs |-> (path :> (IF path \in DOMAIN fsd.fs THEN fsd.fs[path] ELSE <<>>) \o text) @@ fsd.fs,
          dirs |-> fsd.dirs, ok |-> TRUE]

\* open(path, 'w') followed by write(text): raises IsADirectoryError when the
\* path is a directory, otherwise creates or truncates the file.
open_write(path, text, fsd) ==
    IF path \in fsd.dirs
    THEN [fs |-> fsd.fs, dirs |-> fsd.dirs, ok |-> FALSE]
    ELSE [fs |-> (path :> text) @@ fsd.fs, dirs |-> fsd.dirs, ok |-> TRUE]

\* create_markdown_file: ok = FALSE is the OSError branch, which logs.
create_markdown_file(markdown_path, content, fsd) ==
    LET made == os_makedirs(os_path_dirname(markdown_path), TRUE, fsd)
    IN  IF made.ok THEN open_write(markdown_path, Strip(content), made) ELSE made

\* ------------------------------------------------------------------ walker
\* An element is a record; a field that holds child elements is the sequence
\* findall() returns, and find() is its first element.  A name field (h4n,
\* h3n, ...) is <<>> when the name element is missing and <<text>> when it
\* is there, text being <<>> for an element without text.
Missing(children) == Len(children) = 0
Find(children) == children[1]

\* "hXn is None or not hXn.text"
NoText(names) == Missing(names) \/ Find(names) = <<>>

\* A walker returns the create_markdown_file calls it makes, in order; node
\* is 0 for a call made for the <h3> and i for the i-th <h4>.
MdCall(path, content, node) == [path |-> path, content |-> content, node |-> node]

\* (mutant) an <h4> without a name is written as "untitled.md"
process_h4_element_unnamed(h4, classified_output, i) ==
    LET h4_name == IF NoText(h4.h4n) THEN <<"untitled">> ELSE sanitize_filename(Find(h4.h4n))
        markdown_path == os_path_join(classified_output, h4_name \o <<".md">>)
    IN  IF Missing(h4.p) THEN <<>>
        ELSE <<MdCall(markdown_path, markdown_content(h4.p), i)>>

\* (mutant) every <h4> gets a directory of its own
process_h4_element_subdir(h4, classified_output, i) ==
    IF NoText(h4.h4n) THEN <<>>
    ELSE LET h4_name == sanitize_filename(Find(h4.h4n))
             markdown_path == os_path_join(os_path_join(classified_output, h4_name),
                                           h4_name \o <<".md">>)
         IN  IF Missing(h4.p) THEN <<>>
             ELSE <<MdCall(markdown_path, markdown_content(h4.p), i)>>

\* the body of the loop of process_h4_elements for the i-th <h4>
process_h4_element(h4, classified_output, i) ==
    IF NoText(h4.h4n) THEN <<>>
    ELSE LET h4_name == sanitize_filename(Find(h4.h4n))
             markdown_filename == h4_name \o <<".md">>
             markdown_path == os_path_join(classified_output, markdown_filename)
         IN  IF Missing(h4.p) THEN <<>>
             ELSE <<MdCall(markdown_path, markdown_content(h4.p), i)>>

RECURSIVE process_h4_from(_, _, _)
process_h4_from(h4_elements, classified_output, i) ==
    IF i > Len(h4_elements) THEN <<>>
    ELSE process_h4_element(h4_elements[i], classified_output, i)
             \o process_h4_from(h4_elements, classified_output, i + 1)

process_h4_elements(h3_element, classified_output) ==
    process_h4_from(h3_element.h4, classified_output, 1)

\* the else branch of process_h3_elements: an <h3> without <h4>
process_h3_leaf(h3, classified_output) ==
    LET markdown_filename == sanitize_filename(Find(h3.h3n)) \o <<".md">>
        markdown_path == os_path_join(classified_output, markdown_filename)
    IN  IF Missing(h3.p) THEN <<>>
        ELSE <<MdCall(markdown_path, markdown_content(h3.p), 0)>>

\* (mutant) the paragraphs of an <h3> are written even when it has <h4>
process_h3_elements_both(h2_element, classified_output) ==
    IF Missing(h2_element.h3) THEN <<>>
    ELSE LET h3 == Find(h2_element.h3)
         IN  IF NoText(h3.h3n) THEN <<>>
             ELSE LET output == os_path_join(classified_output, sanitize_filename(Find(h3.h3n)))
                  IN  process_h4_elements(h3, output) \o process_h3_leaf(h3, output)

process_h3_elements(h2_element, classified_output) ==
    IF Missing(h2_element.h3) THEN <<>>
    ELSE LET h3 == Find(h2_element.h3)
         IN  IF NoText(h3.h3n) THEN <<>>
             ELSE LET h3_folder == sanitize_filename(Find(h3.h3n))
                      output == os_path_join(classified_output, h3_folder)
                  IN  IF ~Missing(h3.h4)
                      THEN process_h4_elements(h3, output)
                      ELSE process_h3_leaf(h3, output)

\* (mutant) an <h1> without <h2> is written as {h1 name}.md, next to its
\* directory
process_h2_elements_h1leaf(h1_element, classified_output) ==
    IF Missing(h1_element.h2)
    THEN IF Missing(h1_element.p) THEN <<>>
         ELSE <<MdCall(classified_output \o <<".md">>, markdown_content(h1_element.p), 0)>>
    ELSE LET h2 == Find(h1_element.h2)
         IN  IF NoText(h2.h2n) THEN <<>>
             ELSE process_h3_elements(h2, os_path_join(classified_output, sanitize_filename(Find(h2.h2n))))

process_h2_elements(h1_element, classified_output) ==
    IF Missing(h1_element.h2) THEN <<>>
    ELSE LET h2 == Find(h1_element.h2)
         IN  IF NoText(h2.h2n) THEN <<>>
             ELSE process_h3_elements(h2, os_path_join(classified_output, sanitize_filename(Find(h2.h2n))))

process_h1_elements(h0_element, classified_output) ==
    IF Missing(h0_element.h1) THEN <<>>
    ELSE LET h1 == Find(h0_element.h1)
         IN  IF NoText(h1.h1n) THEN <<>>
             ELSE process_h2_elements(h1, os_path_join(classified_output, sanitize_filename(Find(h1.h1n))))

\* (mutant) without an <h0> the walk starts at <ha>
process_h0_optional(ha_element, classified_output) ==
    IF Missing(ha_element.h0) THEN process_h1_elements(ha_element, classified_output)
    ELSE LET h0 == Find(ha_element.h0)
             output == IF NoText(h0.h0n) THEN classified_output
                       ELSE os_path_join(classified_output, sanitize_filename(Find(h0.h0n)))
         IN  process_h1_elements(h0, output)

\* lines 137-145 of process_xml_file: the optional name of <h0>, then the walk
process_h0(ha_element, classified_output) ==
    IF Missing(ha_element.h0) THEN <<>>
    ELSE LET h0 == Find(ha_element.h0)
             output == IF NoText(h0.h0n) THEN classified_output
                       ELSE os_path_join(classified_output, sanitize_filename(Find(h0.h0n)))
         IN  process_h1_elements(h0, output)

\* ------------------------------------------------------- document processor
RECURSIVE run_calls(_, _, _)
\* create_markdown_file for each call in order; a failing one logs and the
\* walk goes on.  acc is [fs, dirs, log, calls].
run_calls(todo, i, acc) ==
    IF i > Len(todo) THEN acc
    ELSE LET r == create_markdown_file(todo[i].path, todo[i].content, acc)
         IN  run_calls(todo, i + 1,
                 [fs |-> r.fs, dirs |-> r.dirs,
                  log |-> IF r.ok THEN acc.log ELSE Append(acc.log, "WriteError"),
                  calls |-> Append(acc.calls,
                      [path |-> todo[i].path, content |-> todo[i].content,
                       node |-> todo[i].node, ok |-> r.ok])])

Returned(fsd, log) ==
    [fs |-> fsd.fs, dirs |-> fsd.dirs, log |-> log, calls |-> <<>>, exc |-> "None"]

Raised(fsd, exc) ==
    [fs |-> fsd.fs, dirs |-> fsd.dirs, log |-> <<>>, calls |-> <<>>, exc |-> exc]

\* the try block of process_xml_file (lines 107-145)
process_xml_file_try(file, output_root, fsd) ==
    LET classification == classify_file(file.name)
        root == file.root
    IN  IF classification = <<NoElem>> THEN Returned(fsd, <<"Unclassified">>)
        ELSE IF ~file.wellformed THEN Raised(fsd, "ParseError")
        ELSE IF NoText(root.h) THEN Returned(fsd, <<"MissingH">>)
        ELSE IF Missing(root.ha) THEN Returned(fsd, <<"MissingHa">>)
        ELSE IF NoText(Find(root.ha).han) THEN Returned(fsd, <<"MissingHan">>)
        ELSE LET top_folder == sanitize_filename(Find(root.h))
                 han_folder == sanitize_filename(Find(Find(root.ha).han))
                 classified_output ==
                     os_path_join(os_path_join(os_path_join(output_root, classification),
                                               top_folder), han_folder)
                 r == run_calls(process_h0(Find(root.ha), classified_output), 1,
                                [fs |-> fsd.fs, dirs |-> fsd.dirs, log |-> <<>>, calls |-> <<>>])
             IN  [fs |-> r.fs, dirs |-> r.dirs, log |-> r.log, calls |-> r.calls, exc |-> "None"]

\* (mutant) no except clause: what the try block raises leaves the function
process_xml_file_uncaught(file, output_root, fsd) ==
    process_xml_file_try(file, output_root, fsd)

\* process_xml_file: the except clauses (lines 147-154) log what was raised
process_xml_file(file, output_root, fsd) ==
    LET r == process_xml_file_try(file, output_root, fsd)
    IN  IF r.exc # "None"
        THEN [r EXCEPT !.log = Append(@, r.exc), !.exc = "None"]
        ELSE r

\* ------------------------------------------------------------- batch driver
RECURSIVE process_all_xml(_, _, _)
\* process_all_xml on the files os.walk yields: the filesystem it leaves
process_all_xml(input_files, output_folder, fsd) ==
    IF input_files = <<>> THEN fsd
    ELSE LET file == Head(input_files)
             r == IF EndsWith(Lower(file.name), DotXml)
                  THEN process_xml_file(file, output_folder, fsd)
                  ELSE fsd
         IN  process_all_xml(Tail(input_files), output_folder, [fs |-> r.fs, dirs |-> r.dirs])

\* ------------------------------------------------------------------- inputs
H4(n, p)      == [h4n |-> n, p |-> p]
H3(n, p, h4)  == [h3n |-> n, p |-> p, h4 |-> h4]
H2(n, p, h3)  == [h2n |-> n, p |-> p, h3 |-> h3]
H1(n, p, h2)  == [h1n |-> n, p |-> p, h2 |-> h2]
H0(n, h1)     == [h0n |-> n, h1 |-> h1]
Ha(n, h0, h1) == [han |-> n, h0 |-> h0, h1 |-> h1]
Root(h, ha)   == [h |-> h, ha |-> ha]
XmlFile(name, wellformed, root) == [name |-> name, wellformed |-> wellformed, root |-> root]

\* one <p> holding the text t; a <p> without text
Par(t)    == << << <<t>> >> >>
EmptyPar  == << <<>> >>
Ord(n)    == <<"[", n, "]">>

NoName    == <<>>                 \* the name element is missing
NoTextName == << <<>> >>          \* the name element is there, without text

H4Opts ==
    { H4(NoName, Par("T1")),
      H4(<<Ord("1")>>, Par("T2")),
      H4(<< <<"a">> >>, << << <<"Ta">>, <<"i">> >>, << <<" ">> >>, << <<"Tz">> >> >>),
      H4(<<Ord("1") \o <<" ", "a">> >>, Par("Tb")),
      H4(<< <<"b">> >>, Par("Tc")),
      H4(<< <<"b">> >>, <<>>),
      H4(<< <<"b">> >>, EmptyPar) }

H4Lists == UNION { [1..n -> H4Opts] : n \in 0..MaxH4 }

H3Names  == { NoName, NoTextName, << <<"[", "1", "2", "]">> >>, << <<" ">> >>, << <<"C">> >> }
DeepPars == { <<>>, EmptyPar, Par("P3") }

H3Full == { H3(n, p, l) : n \in H3Names, p \in DeepPars, l \in H4Lists }

H3Few ==
    { H3(<< <<"C">> >>, Par("P3"), <<>>),
      H3(<< <<"C">> >>, Par("P3"), << H4(<< <<"a">> >>, Par("Ta")) >>),
      H3(NoName, Par("P3"), << H4(<< <<"a">> >>, Par("Ta")) >>),
      H3(<< <<"C">> >>, <<>>, <<>>) }

UpNames == { NoName, <<Ord("7")>>, << <<"N">> >> }

OptSeq(S) == {<<>>} \cup { <<x>> : x \in S }

\* outlines (the sequence of <h1> children) with every defect above <h3>
UpperOutlines ==
    OptSeq({ H1(n1, p1, h2) :
               n1 \in UpNames, p1 \in {<<>>, Par("Hello")},
               h2 \in OptSeq({ H2(n2, p2, h3) :
                                 n2 \in UpNames, p2 \in {<<>>, Par("P2")},
                                 h3 \in OptSeq(H3Few) }) })

\* outlines that reach every <h3>
DeepOutlines ==
    { << H1(<< <<"N">> >>, Par("Hello"), << H2(<< <<"N">> >>, p2, <<h3>>) >>) >> :
        p2 \in {<<>>, Par("P2")}, h3 \in H3Full }

GoodName == <<"s", "1", "m", ".", "x", "m", "l">>
Title    == << <<"T">> >>
Ident    == << <<"I">> >>
OutputRoot == <<"out">>

\* the outline directly under <ha>, under an unnamed <h0>, under a named <h0>
WithoutH0(o)  == XmlFile(GoodName, TRUE, Root(Title, << Ha(Ident, <<>>, o) >>))
UnderH0(h0n, o) == XmlFile(GoodName, TRUE, Root(Title, << Ha(Ident, << H0(h0n, o) >>, <<>>) >>))
UnnamedH0(o)  == UnderH0(NoName, o)
NamedH0(n, o) == UnderH0(<<n>>, o)

WalkDocs ==
    { WithoutH0(o) : o \in UpperOutlines }
    \cup { UnnamedH0(o) : o \in UpperOutlines \cup DeepOutlines }
    \cup { NamedH0(<<"Z">>, o) : o \in UpperOutlines \cup DeepOutlines }
    \cup { NamedH0(Ord("3"), o) : o \in UpperOutlines }
    \cup { UnderH0(NoTextName, o) : o \in UpperOutlines }

\* an input folder for the batch driver: documents whose outputs meet
Leaf(n3, p3)     == << H1(<< <<"A">> >>, <<>>, << H2(<< <<"B">> >>, <<>>, << H3(<<n3>>, p3, <<>>) >>) >>) >>
Fan(h4s)         == << H1(<< <<"A">> >>, <<>>, << H2(<< <<"B">> >>, <<>>, << H3(<< <<"C">> >>, Par("P3"), h4s) >>) >>) >>
TwoH4            == << H4(<< <<"a">> >>, Par("Ta")), H4(<< <<"b">> >>, Par("Tc")) >>
\* under <h0> "A": h1 "B", h2 "C", h3 "b.md": its directory is the path of
\* the file that Fan(TwoH4) writes for the <h4> "b"
Clash            == << H1(<< <<"B">> >>, <<>>, << H2(<< <<"C">> >>, <<>>,
                         << H3(<< <<"b", ".md">> >>, Par("Ty"), <<>>) >>) >>) >>

BatchDocs ==
    { UnnamedH0(Fan(TwoH4)),
      UnnamedH0(Fan(<< H4(<< <<"a">> >>, Par("Tb")) >>)),
      UnnamedH0(Leaf(<<"C">>, Par("Hello"))),
      NamedH0(<<"A">>, Clash),
      WithoutH0(Fan(TwoH4)),
      XmlFile(GoodName, FALSE, UnnamedH0(Fan(TwoH4)).root),
      XmlFile(<<"s", "2", "x", ".", "x", "m", "l">>, TRUE, UnnamedH0(Fan(TwoH4)).root),
      XmlFile(<<"S", "A", ".", "X", "M", "L">>, TRUE, UnnamedH0(Leaf(<<"C">>, Par("Hello"))).root),
      XmlFile(<<"n", "m", ".", "t", "x", "t">>, TRUE, UnnamedH0(Fan(TwoH4)).root),
      XmlFile(GoodName, TRUE, Root(NoName, UnnamedH0(Fan(TwoH4)).root.ha)),
      XmlFile(GoodName, TRUE, Root(NoTextName, UnnamedH0(Fan(TwoH4)).root.ha)),
      XmlFile(GoodName, TRUE, Root(Title, <<>>)),
      XmlFile(GoodName, TRUE, Root(Title, << Ha(NoName, << H0(NoName, Fan(TwoH4)) >>, <<>>) >>)) }

Alphabet == {"[", "1", "]", " ", "x", ":"}
Strings  == UNION { [1..n -> Alphabet] : n \in 0..MaxLen }

\* -------------------------------------------------------------------- state
VARIABLES
    input_exists,  \* os.path.exists(args.input_folder)
    files,         \* the files os.walk yields, in its order
    pc,            \* "start", "walk", "done" (main); "sanitize" (the sanitizer alone)
    run,           \* invocations of main so far
    pos,           \* files of this run that the loop of process_all_xml has taken
    fs,            \* path of each regular file below the output folder -> content
    dirs,          \* the directories
    log,           \* xml_to_markdown_errors.log: [run, file, kind] per entry
    writes,        \* create_markdown_file calls of the last process_xml_file
    exit_code,     \* -1 while running
    outcome,       \* per completed run: the filesystem it left
    name,          \* the string in the sanitizer's hands
    prev,          \* the string before the last sanitize_filename
    applied        \* sanitize_filename calls so far

vars == <<input_exists, files, pc, run, pos, fs, dirs, log, writes, exit_code,
          outcome, name, prev, applied>>

EmptyFs == [p \in {} |-> <<>>]

Idle ==
    /\ pc = "start" /\ run = 0 /\ pos = 0
    /\ fs = EmptyFs /\ dirs = {} /\ log = <<>> /\ writes = <<>>
    /\ exit_code = -1 /\ outcome = <<>>
    /\ name = <<>> /\ prev = <<>> /\ applied = 0

Init ==
    /\ input_exists \in BOOLEAN
    /\ files \in UNION { [1..n -> BatchDocs] : n \in 0..MaxFiles }
    /\ input_exists = FALSE => files = <<>>
    /\ Idle

InitWalk ==
    /\ input_exists = TRUE
    /\ files \in { <<d>> : d \in WalkDocs }
    /\ Idle

\* main, lines 164-178
Main ==
    /\ pc = "start"
    /\ run' = run + 1
    /\ pos' = 0
    /\ writes' = <<>>
    /\ IF ~input_exists
       THEN /\ pc' = "done" /\ exit_code' = 1
            /\ UNCHANGED dirs
       ELSE /\ pc' = "walk" /\ exit_code' = -1
            /\ dirs' = os_makedirs(OutputRoot, TRUE, [fs |-> fs, dirs |-> dirs]).dirs
    /\ UNCHANGED <<input_exists, files, fs, log, outcome, name, prev, applied>>

\* one turn of the loop of process_all_xml, lines 159-162
ProcessNextFile ==
    /\ pc = "walk"
    /\ pos < Len(files)
    /\ pos' = pos + 1
    /\ LET file == files[pos + 1]
       IN  IF ~EndsWith(Lower(file.name), DotXml)
           THEN /\ writes' = <<>>
                /\ UNCHANGED <<fs, dirs, log, pc, exit_code>>
           ELSE LET r == process_xml_file(file, OutputRoot, [fs |-> fs, dirs |-> dirs])
                IN  /\ fs' = r.fs
                    /\ dirs' = r.dirs
                    /\ writes' = r.calls
                    /\ log' = log \o [i \in 1..Len(r.log) |->
                                        [run |-> run, file |-> pos + 1, kind |-> r.log[i]]]
                    /\ IF r.exc # "None"
                       THEN pc' = "done" /\ exit_code' = 1
                       ELSE UNCHANGED <<pc, exit_code>>
    /\ UNCHANGED <<input_exists, files, run, outcome, name, prev, applied>>

\* process_all_xml and main return: the interpreter exits with 0
Finish ==
    /\ pc = "walk"
    /\ pos = Len(files)
    /\ pc' = "done"
    /\ exit_code' = 0
    /\ outcome' = Append(outcome, [fs |-> fs, dirs |-> dirs,
                                    errors |-> SelectSeq(log, LAMBDA e : e.run = run)])
    /\ UNCHANGED <<input_exists, files, run, pos, fs, dirs, log, writes, name, prev, applied>>

\* the converter is started again on the same input and output folders
Rerun ==
    /\ pc = "done"
    /\ run < MaxRuns
    /\ pc' = "start"
    /\ exit_code' = -1
    /\ UNCHANGED <<input_exists, files, run, pos, fs, dirs, log, writes, outcome,
                   name, prev, applied>>

Next == Main \/ ProcessNextFile \/ Finish \/ Rerun

Spec == Init /\ [][Next]_vars

\* one document, converted once into an empty output folder
NextWalk == Main \/ ProcessNextFile \/ Finish

SpecWalk == InitWalk /\ [][NextWalk]_vars

\* the sanitizer alone, applied to a string and then to its own result
InitSanitize ==
    /\ input_exists = FALSE /\ files = <<>>
    /\ pc = "sanitize" /\ run = 0 /\ pos = 0
    /\ fs = EmptyFs /\ dirs = {} /\ log = <<>> /\ writes = <<>>
    /\ exit_code = -1 /\ outcome = <<>>
    /\ name \in Strings /\ prev = name /\ applied = 0

Sanitize ==
    /\ pc = "sanitize"
    /\ applied < 2
    /\ prev' = name
    /\ name' = sanitize_filename(name)
    /\ applied' = applied + 1
    /\ UNCHANGED <<input_exists, files, pc, run, pos, fs, dirs, log, writes, exit_code, outcome>>

NextSanitize == Sanitize

SpecSanitize == InitSanitize /\ [][NextSanitize]_vars

\* ------------------------------------------------------------ claims: terms
\* the document that process_xml_file has just converted
Taken     == pos >= 1 /\ pc \in {"walk", "done"}
Doc       == files[pos]
DocHa     == Find(Doc.root.ha)
HasH0     == ~Missing(DocHa.h0)
\* the <h1> children the outline starts with: under <h0>, or under <ha>
\* itself when there is no <h0>
Outline   == IF HasH0 THEN Find(DocHa.h0).h1 ELSE DocHa.h1
H0Named   == HasH0 /\ ~NoText(Find(DocHa.h0).h0n)
TheH1     == Find(Outline)
TheH2     == Find(TheH1.h2)
TheH3     == Find(TheH2.h3)
HasH1     == ~Missing(Outline)
HasH2     == HasH1 /\ ~Missing(TheH1.h2)
HasH3     == HasH2 /\ ~Missing(TheH2.h3)

\* a path written segment by segment
PathOf(segments) == JoinWith(<<SEP>>, segments)
BaseSegs  == << <<"out">>, <<"m">>, <<"T">>, <<"I">> >>
Base      == PathOf(BaseSegs)
Contains(text, tok) == \E i \in 1..Len(text) : text[i] = tok
Usable(names) == ~Missing(names) /\ Find(names) \in { <<"N">>, <<"C">>, <<"Z">> }

\* C1 (as stated): a document whose outline is one named <h1> with the single
\* paragraph "Hello" and nothing deeper yields exactly one file,
\* {root}/{class}/{title}/{id}/{h1name}.md, holding "Hello".
C1Outline ==
    /\ Taken /\ HasH1
    /\ TheH1.h1n = << <<"N">> >> /\ TheH1.p = Par("Hello") /\ Missing(TheH1.h2)

C2_NoEmptyFile == \A path \in DOMAIN fs : fs[path] # <<>>

\* C3: no output path has an empty segment or names a file ".md".
C3_NoEmptyNamedFile ==
    \A path \in DOMAIN fs :
        /\ os_path_basename(path) # <<".md">>
        /\ \A i \in 1..(Len(path) - 1) : ~(path[i] = SEP /\ path[i + 1] = SEP)

\* C4 (as stated): <h0> is optional; without it the walk still starts at
\* level 1 from {root}/{class}/{title}/{id}, so the outline h1 > h2 > h3 of
\* such a document yields the file it yields under an <h0>, minus the <h0>
\* segment.
C4Case ==
    /\ Taken /\ ~HasH0 /\ HasH3
    /\ TheH1.h1n = << <<"N">> >> /\ TheH2.h2n = << <<"N">> >>
    /\ TheH3 = H3(<< <<"C">> >>, Par("P3"), <<>>)

Reached3 ==
    /\ Taken /\ HasH0 /\ HasH3
    /\ ~NoText(TheH1.h1n) /\ ~NoText(TheH2.h2n) /\ ~NoText(TheH3.h3n)

Unnamed4(i) == Missing(TheH3.h4[i].h4n)

\* C5: a heading whose name element is missing yields no file, for itself
\* and for everything beneath it; an <h4> without a name is skipped alone,
\* its named siblings that have paragraphs are still written.
C5_UnnamedSkipped ==
    Taken =>
        /\ (HasH1 /\ Missing(TheH1.h1n)) => (writes = <<>> /\ fs = EmptyFs)
        /\ (HasH2 /\ Missing(TheH2.h2n)) => (writes = <<>> /\ fs = EmptyFs)
        /\ (HasH3 /\ Missing(TheH3.h3n)) => (writes = <<>> /\ fs = EmptyFs)
        /\ HasH3 =>
              \A i \in 1..Len(TheH3.h4) :
                  Unnamed4(i) => \A w \in 1..Len(writes) : writes[w].node # i
        /\ Reached3 =>
              \A j \in 1..Len(TheH3.h4) :
                  (~NoText(TheH3.h4[j].h4n) /\ ~Missing(TheH3.h4[j].p)) =>
                      \E w \in 1..Len(writes) :
                          /\ writes[w].node = j /\ writes[w].ok
                          /\ writes[w].path \in DOMAIN fs

C5_Witness ==
    /\ Reached3 /\ pc = "done"
    /\ \E i, j \in 1..Len(TheH3.h4) :
          /\ Unnamed4(i) /\ ~Missing(TheH3.h4[i].p) /\ i < j
          /\ \E w \in 1..Len(writes) : writes[w].node = j

\* C8: the <h3> has a usable name and k >= 1 <h4> children, each with a
\* name and a paragraph with text
H0Segs    == IF H0Named THEN <<Find(Find(DocHa.h0).h0n)>> ELSE <<>>
H3Dir     == PathOf(BaseSegs \o H0Segs \o << <<"N">>, <<"N">>, <<"C">> >>)
H4Name(i) == sanitize_filename(Find(TheH3.h4[i].h4n))
H4Path(i) == H3Dir \o <<SEP>> \o H4Name(i) \o <<".md">>
HasText(paragraphs) == \E j \in 1..Len(paragraphs) : extract_text(paragraphs[j]) # <<>>

C8Case ==
    /\ Reached3
    /\ ~H0Named \/ Usable(Find(DocHa.h0).h0n)
    /\ TheH1.h1n = << <<"N">> >> /\ TheH2.h2n = << <<"N">> >> /\ TheH3.h3n = << <<"C">> >>
    /\ Len(TheH3.h4) >= 1
    /\ \A i \in 1..Len(TheH3.h4) : ~NoText(TheH3.h4[i].h4n) /\ HasText(TheH3.h4[i].p)

DistinctH4Names == \A i, j \in 1..Len(TheH3.h4) : i # j => H4Name(i) # H4Name(j)

\* C8 (as stated): each such <h4> has its own file {sanitized h4 name}.md in
\* the directory of the <h3>, so k such <h4> yield k files there.
C8_KFiles ==
    (C8Case /\ \A i \in 1..Len(TheH3.h4) : H4Name(i) # <<>>) =>
        /\ \A i \in 1..Len(TheH3.h4) : H4Path(i) \in DOMAIN fs
        /\ Cardinality(DOMAIN fs) = Len(TheH3.h4)

\* C8 (amended): each such <h4> is written to {sanitized h4 name}.md directly
\* in the directory of the <h3>; k such <h4> with pairwise distinct
\* sanitized names yield k files there, and <h4> whose sanitized names
\* coincide share one file, which holds the text of the last of them.
C8_FilePerH4 ==
    C8Case =>
        /\ Len(writes) = Len(TheH3.h4)
        /\ \A i \in 1..Len(TheH3.h4) :
              /\ writes[i].node = i /\ writes[i].ok
              /\ writes[i].path = H4Path(i)
              /\ os_path_dirname(writes[i].path) = H3Dir
              /\ (\A j \in (i + 1)..Len(TheH3.h4) : H4Name(j) # H4Name(i)) =>
                     fs[H4Path(i)] = Strip(markdown_content(TheH3.h4[i].p))
        /\ DOMAIN fs = { H4Path(i) : i \in 1..Len(TheH3.h4) }
        /\ DistinctH4Names => Cardinality(DOMAIN fs) = Len(TheH3.h4)

C8_Witness == C8Case /\ Len(TheH3.h4) >= 2 /\ DistinctH4Names /\ pc = "done"

\* C9: deepest wins.  The own paragraphs of an <h1>, <h2> or <h3> that has a
\* deeper heading child are in no written file (they are the texts "Hello",
\* "P2" and "P3"), and when the deeper headings yield nothing, nothing is
\* written.
Written(tok) ==
    \/ \E path \in DOMAIN fs : Contains(fs[path], tok)
    \/ \E w \in 1..Len(writes) : Contains(writes[w].content, tok)

C9_DeepestWins ==
    Taken =>
        /\ (HasH2 /\ ~Missing(TheH1.p)) => ~Written("Hello")
        /\ (HasH3 /\ ~Missing(TheH2.p)) => ~Written("P2")
        /\ (HasH3 /\ ~Missing(TheH3.h4) /\ ~Missing(TheH3.p)) => ~Written("P3")
        /\ (HasH3 /\ ~Missing(TheH3.h4)
              /\ \A i \in 1..Len(TheH3.h4) : Missing(TheH3.h4[i].p)) => fs = EmptyFs

C9_Witness ==
    /\ Reached3 /\ pc = "done"
    /\ ~Missing(TheH1.p) /\ ~Missing(TheH2.p) /\ TheH3.p = Par("P3")
    /\ ~Missing(TheH3.h4) /\ fs # EmptyFs

\* ----------------------------------------------------------- claims: batch
Candidate(f)  == EndsWith(Lower(f.name), DotXml)
Malformed(f)  == ~f.wellformed
Unclassified(f) == classify_file(f.name) = <<NoElem>>
NoTitleOrId(f) ==
    NoText(f.root.h) \/ Missing(f.root.ha) \/ NoText(Find(f.root.ha).han)
\* the file cannot be converted at all
Rejected(f)   == Candidate(f) /\ (Unclassified(f) \/ Malformed(f) \/ NoTitleOrId(f))

Entries(r, i) == SelectSeq(log, LAMBDA e : e.run = r /\ e.file = i)
\* the file met an error of any kind in the first run
Failed(i)     == Entries(1, i) # <<>>

RECURSIVE Keep(_, _, _)
\* the files, in order, whose index is in idx
Keep(fseq, idx, i) ==
    IF i > Len(fseq) THEN <<>>
    ELSE (IF i \in idx THEN <<fseq[i]>> ELSE <<>>) \o Keep(fseq, idx, i + 1)

FreshOutput == [fs |-> EmptyFs, dirs |-> {OutputRoot}]
FirstRunDone == pc = "done" /\ run = 1 /\ input_exists

\* every file was taken, none let an exception out, each rejected file has
\* its one log entry and each failed write of the last file its entry
C7Isolation ==
    /\ FirstRunDone => (exit_code = 0 /\ pos = Len(files))
    /\ (run = 1 /\ Taken) =>
          /\ \A i \in 1..pos : Rejected(files[i]) => Len(Entries(1, i)) = 1
          /\ Candidate(Doc) =>
                Cardinality({ w \in 1..Len(writes) : ~writes[w].ok })
                    = Len(SelectSeq(Entries(1, pos), LAMBDA e : e.kind = "WriteError"))

\* C7 (as stated): a failing file is logged, lets no exception out and stops
\* no later file; the final output is what the files that did not fail
\* produce alone; the run exits with 0.
C7_ValidFilesAlone ==
    /\ C7Isolation
    /\ FirstRunDone =>
          fs = process_all_xml(Keep(files, { i \in 1..Len(files) : ~Failed(i) }, 1),
                               OutputRoot, FreshOutput).fs

\* C7 (amended): the same, but the final output is what the files other
\* than the malformed, unclassifiable and title- or identifier-less ones
\* produce: a filesystem error on a write is logged and skips that one
\* output file only, the document still contributes its other files.
C7_RejectedFilesDropped ==
    /\ C7Isolation
    /\ FirstRunDone =>
          fs = process_all_xml(Keep(files, { i \in 1..Len(files) : ~Rejected(files[i]) }, 1),
                               OutputRoot, FreshOutput).fs

C7_Witness ==
    /\ FirstRunDone /\ Len(files) = 2
    /\ Malformed(files[1]) /\ Candidate(files[1]) /\ ~Unclassified(files[1])
    /\ ~Rejected(files[2]) /\ fs # EmptyFs

\* C10: a second run on the same input raises nothing new on what the first
\* run left and leaves every output path with the content it had.
C10_RerunIdempotent ==
    \A k \in 2..Len(outcome) :
        /\ outcome[k].fs = outcome[1].fs
        /\ outcome[k].dirs = outcome[1].dirs
        /\ Len(outcome[k].errors) = Len(outcome[1].errors)
        /\ \A e \in 1..Len(outcome[k].errors) :
              /\ outcome[k].errors[e].file = outcome[1].errors[e].file
              /\ outcome[k].errors[e].kind = outcome[1].errors[e].kind

C10_Witness ==
    /\ Len(outcome) >= 2 /\ Cardinality(DOMAIN outcome[1].fs) >= 2
    /\ pc = "done" /\ exit_code = 0

\* ------------------------------------------------------- claims: sanitizer
\* C6: sanitize_filename is idempotent: applied to its own result it
\* returns that result.
C6_Idempotent == applied = 2 => name = prev

====
